---- MODULE Spec2Model ----
(***************************************************************************)
(* Model of the DependencyInjected lifecycle wrapper and its Optional /    *)
(* Required dependency proxies (src/DependencyInjected.h), driven by the   *)
(* component types of the unit tester (src/Tester.cpp), in the checked     *)
(* (DI_DEBUG) build the tester is written for.                             *)
(***************************************************************************)
EXTENDS Integers, Sequences, FiniteSets, TLC

\* ---------------------------------------------------------------- bounds
\* LeafObject::DoThing() calls explored within one Live period
MaxCount == 2
\* Live periods of one wrapper counted since its last bind (the count saturates)
MaxCycles == 2

\* ------------------------------------------------------------- constants
NULL == "nullptr"

\* DI_DEBUG is defined: DI_DEBUG_ASSERT(cond) traps when cond is false
DI_DEBUG == TRUE

\* The wrappers a test declares: DependencyInjected<Cog>, <Widget>, <LeafObject>
Wrappers == {"cog", "widget", "leaf"}

\* The wrappers the tests declare in all: also DependencyInjected<BranchObject>
\* (branch of Test_NestedDeps), DependencyInjected<MyImplementation> (branch of
\* Test_DerivedClass) and DependencyInjected<InterfaceUser>
TestWrappers == Wrappers \cup {"branch", "impl", "user"}

\* Address of each wrapper's Memory slot
SlotAddr == [cog |-> "cog.Memory", widget |-> "widget.Memory", leaf |-> "leaf.Memory",
             branch |-> "branch.Memory", impl |-> "impl.Memory", user |-> "user.Memory"]

\* T::Dependencies of each component type: its proxy members
Fields(w) ==
    CASE w = "cog"    -> {"widget", "optionalWidget"}
      [] w = "widget" -> {"cog"}
      [] w = "user"   -> {"Branch"}
      [] OTHER        -> {}

\* RequiredDependency<> members (the others are OptionalDependency<>)
IsRequired(w, f) ==
    <<w, f>> \in {<<"cog", "widget">>, <<"widget", "cog">>, <<"user", "Branch">>}

\* the wrapper a member of the descriptor can be wired to (by its type)
TargetOf(w, f) ==
    CASE w = "cog"  -> "widget"
      [] w = "user" -> "impl"
      [] OTHER      -> "cog"

\* parameterX of the tests' Initialize(parameterX) calls
LeafParameterX == 10
WidgetParameterX == 15

\* arguments of T::Initialize beyond the descriptor (Cog::Initialize has none)
ArgsOf(w) ==
    CASE w = "cog"    -> {0}
      [] w = "widget" -> {WidgetParameterX}
      [] OTHER        -> {LeafParameterX}

\* the methods a caller reaches through operator->
Methods(w) ==
    CASE w = "cog"    -> {"DoCogThing", "DoCogThing2"}
      [] w = "widget" -> {"DoWidgetThing"}
      [] OTHER        -> {"DoThing"}

Kinds == {"DependenciesNotBound", "AlreadyLive", "NotLive",
          "MissingRequiredDependency", "DestroyedWhileLive"}

VARIABLES
    exists,       \* wrapper object is in scope (constructed, not yet destroyed)
    Initialized,  \* IDependencyInjected::Initialized
    SetDeps,      \* DependencyInjected::SetDeps
    Instance,     \* DependencyInjected::Instance
    Memory,       \* DependencyInjected::Memory, as the fields of T it holds
    Deps,         \* DependencyInjected::Deps
    violation,    \* the DI_DEBUG_BREAK() that ended the run, or "none"
    lastOp,       \* the call just made and what it returned
    lastPeriod,   \* the wrapper last shut down, its instance as that Live period left
                  \* it, and its Live periods in a row since its descriptor was bound
    initResult,   \* what the last Initialize of each wrapper returned to its caller ("-": not live)
    rel,          \* the same calls made on the build without DI_DEBUG: its wrappers' fields,
                  \* and the methods entered and the pointer returned by its last call
    run           \* the test function of Tester.cpp being run: its name, the statement it
                  \* is at, the entry points and methods entered, the values DoThing
                  \* returned, how it ended, and what RunTests made of that

vars == <<exists, Initialized, SetDeps, Instance, Memory, Deps, violation,
          lastOp, lastPeriod, initResult, rel, run>>

\* ---------------------------------------------------------------- proxies
\* memset(0) image of a proxy object: no vptr, null members
ZeroProxy == [vptr |-> FALSE, Reference |-> NULL, Wrapper |-> NULL]

\* OptionalDependency(void* ptr = nullptr)
OptionalDependency_null == [vptr |-> TRUE, Reference |-> NULL, Wrapper |-> NULL]

\* DependencyInjected::GetObjectPtr
GetObjectPtr(w) == SlotAddr[w]

\* OptionalDependency(DependencyInjected<S>& wrapper)
OptionalDependency_ref(t) ==
    [vptr |-> TRUE, Reference |-> GetObjectPtr(t), Wrapper |-> t]

\* OptionalDependency(DependencyInjected<S>* wrapper); t = NULL for a null pointer
OptionalDependency_ptr(t) ==
    IF t # NULL
    THEN [vptr |-> TRUE, Reference |-> GetObjectPtr(t), Wrapper |-> t]
    ELSE [vptr |-> TRUE, Reference |-> NULL, Wrapper |-> NULL]

\* RequiredDependency()
RequiredDependency_default == OptionalDependency_null

\* DI_DEBUG_ASSERT(cond) breaks
Breaks(cond) == DI_DEBUG /\ ~cond

\* the pointer constructor without its check
RequiredDependency_ptr_Unchecked(p) == TRUE

\* RequiredDependency(DependencyInjected<S>*): the assertion after the base constructor
RequiredDependency_ptr_Assert(p) == p.Reference # NULL

\* RequiredDependency(DependencyInjected<S>&): the assertion after the base constructor
RequiredDependency_ref_Assert(p) == p.Reference # NULL

\* The constructor expressions a caller can write for a descriptor member:
\* a wrapper reference, a wrapper pointer, a null wrapper pointer, no target
Ctors == {"ref", "ptr", "nullptr", "default"}

\* The proxy a constructor expression builds
MakeProxy(w, f, c) ==
    CASE c = "ref"     -> OptionalDependency_ref(TargetOf(w, f))
      [] c = "ptr"     -> OptionalDependency_ptr(TargetOf(w, f))
      [] c = "nullptr" -> OptionalDependency_ptr(NULL)
      [] OTHER         -> IF IsRequired(w, f) THEN RequiredDependency_default
                                              ELSE OptionalDependency_null

\* The constructor expression breaks (Required constructors only)
CtorBreaks(w, f, c) ==
    /\ IsRequired(w, f)
    /\ CASE c = "ref"     -> Breaks(RequiredDependency_ref_Assert(MakeProxy(w, f, c)))
         [] c = "ptr"     -> Breaks(RequiredDependency_ptr_Assert(MakeProxy(w, f, c)))
         [] c = "nullptr" -> Breaks(RequiredDependency_ptr_Assert(MakeProxy(w, f, c)))
         [] OTHER         -> FALSE

\* IDependencyInjected::IsInitialized
IsInitialized(w) == Initialized[w]

\* liveness taken from the presence of a target instead of the target's flag
IsInitialized_FromReference(p) == p.Reference # NULL

\* OptionalDependency::IsInitialized
OptionalDependency_IsInitialized(p) ==
    p.Wrapper # NULL /\ IsInitialized(p.Wrapper)

\* operator-> that checks only that a target is set
Arrow_Assert_TargetSet(p) == p.Wrapper # NULL

\* operator-> of a proxy that lets a proxy without a target through
Arrow_Assert_NullPasses(p) == p.Wrapper = NULL \/ IsInitialized(p.Wrapper)

\* OptionalDependency::operator->: the assertion
OptionalDependency_Arrow_Assert(p) == OptionalDependency_IsInitialized(p)

\* ------------------------------------------------------------- components
\* T::Dependencies as default-constructed
DefaultDeps(w) ==
    [f \in Fields(w) |-> IF IsRequired(w, f) THEN RequiredDependency_default
                                             ELSE OptionalDependency_null]

\* memset(0) image of a DependencyInjected<LeafObject> that is a member of
\* another component (BranchObject::Leaf, MyImplementation::Leaf)
ZeroWrapper ==
    [vptr |-> FALSE, Initialized |-> FALSE, SetDeps |-> FALSE, Instance |-> NULL,
     Memory |-> [ParameterX |-> 0]]

\* DependencyInjected<LeafObject>() as a member: the member initializers and
\* the constructor's memset
NewWrapper == [ZeroWrapper EXCEPT !.vptr = TRUE]

\* memset(Memory, 0, sizeof(Memory)) seen as the fields of T
ZeroBytes(w) ==
    CASE w = "cog"    -> [Deps |-> [f \in Fields(w) |-> ZeroProxy]]
      [] w = "widget" -> [ParameterX |-> 0, Deps |-> [f \in Fields(w) |-> ZeroProxy]]
      [] w = "user"   -> [Deps |-> [f \in Fields(w) |-> ZeroProxy]]
      [] w \in {"branch", "impl"} -> [Leaf |-> ZeroWrapper]
      [] OTHER        -> [ParameterX |-> 0]

\* T(): value-initialization zeroes the scalars and constructs the members
FreshInstance(w) ==
    CASE w = "cog"    -> [Deps |-> DefaultDeps(w)]
      [] w = "widget" -> [ParameterX |-> 0, Deps |-> DefaultDeps(w)]
      [] w = "user"   -> [Deps |-> DefaultDeps(w)]
      [] w \in {"branch", "impl"} -> [Leaf |-> NewWrapper]
      [] OTHER        -> [ParameterX |-> 0]

\* Initialize that reuses the slot's content instead of constructing
Construct_Reuse(w, mem) == mem

\* new (&Memory) T() over the slot's current content mem
Construct(w, mem) == FreshInstance(w)

\* Widget::Initialize that forgets its argument
T_Initialize_DropsArg(w, mem, deps, arg) ==
    CASE w \in {"cog", "user"} -> [mem EXCEPT !.Deps = deps]
      [] w = "widget" -> [mem EXCEPT !.Deps = deps]
      [] OTHER        -> [mem EXCEPT !.ParameterX = arg]

\* Cog::Initialize, InterfaceUser::Initialize, Widget::Initialize,
\* LeafObject::Initialize
T_Initialize(w, mem, deps, arg) ==
    CASE w \in {"cog", "user"} -> [mem EXCEPT !.Deps = deps]
      [] w = "widget" -> [mem EXCEPT !.Deps = deps, !.ParameterX = arg]
      [] OTHER        -> [mem EXCEPT !.ParameterX = arg]

\* name of an entry point in the call record
EntryName(w, e) ==
    CASE w = "cog"    -> "Cog::" \o e
      [] w = "widget" -> "Widget::" \o e
      [] w = "branch" -> "BranchObject::" \o e
      [] w = "impl"   -> "MyImplementation::" \o e
      [] w = "user"   -> "InterfaceUser::" \o e
      [] OTHER        -> "LeafObject::" \o e

\* --------------------------------------------- components that own a wrapper
\* A component's calls on its member wrapper Leaf, one after the other: L is
\* the member, trap the assertion that stopped the sequence, calls the
\* entry points and methods entered so far, value what the last method returned
Member(L, c) == [L |-> L, trap |-> "none", calls |-> c, value |-> 0]

\* Leaf.SetDependencies({})
Member_SetDependencies(o) ==
    IF o.trap # "none" THEN o
    ELSE IF Breaks(~o.L.Initialized) THEN [o EXCEPT !.trap = "AlreadyLive"]
    ELSE [o EXCEPT !.L.SetDeps = TRUE]

\* Leaf.Initialize(parameterX)
Member_Initialize(o, arg) ==
    IF o.trap # "none" THEN o
    ELSE IF Breaks(o.L.SetDeps /\ ~o.L.Initialized)
    THEN [o EXCEPT !.trap = IF ~o.L.SetDeps THEN "DependenciesNotBound" ELSE "AlreadyLive"]
    ELSE [o EXCEPT !.L.Initialized = TRUE,
                   !.L.Instance = "Leaf.Memory",
                   !.L.Memory = T_Initialize("leaf", Construct("leaf", @), <<>>, arg),
                   !.calls = @ \o <<EntryName("leaf", "Initialize")>>]

\* Leaf.Shutdown()
Member_Shutdown(o) ==
    IF o.trap # "none" \/ o.L.Instance = NULL THEN o
    ELSE [o EXCEPT !.L.Initialized = FALSE,
                   !.L.Instance = NULL,
                   !.L.Memory = ZeroBytes("leaf"),
                   !.calls = @ \o <<EntryName("leaf", "Shutdown")>>]

\* Leaf->DoThing(): operator-> of the member, then LeafObject::DoThing
Member_DoThing(o) ==
    IF o.trap # "none" THEN o
    ELSE IF Breaks(o.L.Initialized) THEN [o EXCEPT !.trap = "NotLive"]
    ELSE IF o.L.Instance = NULL THEN [o EXCEPT !.trap = "NullCall"]
    ELSE [o EXCEPT !.L.Memory.ParameterX = @ + 1,
                   !.value = o.L.Memory.ParameterX + 1,
                   !.calls = @ \o <<"LeafObject::DoThing">>]

\* ~DependencyInjected<LeafObject>() of the member, run by ~T()
Member_Destroy(o) ==
    IF o.trap # "none" THEN o
    ELSE IF Breaks(~o.L.Initialized) THEN [o EXCEPT !.trap = "DestroyedWhileLive"]
    ELSE Member_Shutdown(o)

\* has a member wrapper Leaf
OwnsLeaf(w) == w \in {"branch", "impl"}

\* what running an entry point gives: the instance after it, the assertion
\* that stopped it, the entry points entered
Ran(mem, t, c) == [mem |-> mem, trap |-> t, calls |-> c]

\* BranchObject::Initialize that forgets to bind its member, as
\* MyImplementation::Initialize does
T_Initialize_Run_NoBind(w, mem, deps, arg) ==
    IF OwnsLeaf(w)
    THEN LET o == Member_Initialize(Member(mem.Leaf, <<EntryName(w, "Initialize")>>), arg)
         IN  Ran([mem EXCEPT !.Leaf = o.L], o.trap, o.calls)
    ELSE Ran(T_Initialize(w, mem, deps, arg), "none", <<EntryName(w, "Initialize")>>)

\* Instance->Initialize(Deps, args...): BranchObject::Initialize binds and
\* initializes its member, MyImplementation::Initialize only initializes it
T_Initialize_Run(w, mem, deps, arg) ==
    CASE w = "branch" ->
           LET o == Member_Initialize(
                       Member_SetDependencies(Member(mem.Leaf, <<EntryName(w, "Initialize")>>)),
                       arg)
           IN  Ran([mem EXCEPT !.Leaf = o.L], o.trap, o.calls)
      [] w = "impl" ->
           LET o == Member_Initialize(Member(mem.Leaf, <<EntryName(w, "Initialize")>>), arg)
           IN  Ran([mem EXCEPT !.Leaf = o.L], o.trap, o.calls)
      [] OTHER -> Ran(T_Initialize(w, mem, deps, arg), "none", <<EntryName(w, "Initialize")>>)

\* Instance->Shutdown(args...): BranchObject and MyImplementation shut their
\* member down
T_Shutdown_Run(w, mem) ==
    IF OwnsLeaf(w)
    THEN LET o == Member_Shutdown(Member(mem.Leaf, <<EntryName(w, "Shutdown")>>))
         IN  Ran([mem EXCEPT !.Leaf = o.L], o.trap, o.calls)
    ELSE Ran(mem, "none", <<EntryName(w, "Shutdown")>>)

\* Instance->~T(): destroys the members
T_Destruct_Run(w, mem) ==
    IF OwnsLeaf(w)
    THEN LET o == Member_Destroy(Member(mem.Leaf, <<>>))
         IN  Ran([mem EXCEPT !.Leaf = o.L], o.trap, o.calls)
    ELSE Ran(mem, "none", <<>>)

\* ------------------------------------------------------------------ state
\* Wrapper state of the data model: Live = instance constructed in the slot,
\* DepsBound = descriptor bound and no instance, Empty = neither
State(w) ==
    IF Instance[w] # NULL THEN "Live"
    ELSE IF SetDeps[w] THEN "DepsBound" ELSE "Empty"

\* no instance state
NoMem == [absent |-> TRUE]

\* all member names of the descriptors
AllFields == {"widget", "optionalWidget", "cog", "Branch"}

\* record of a call: operation, wrapper, how it ended, the component methods
\* entered; and, as the operation has them: the argument of Initialize, the
\* method called, the constructor expressions of the descriptor, the proxy
\* used, the pointer returned by operator->, the value the method observed,
\* the instance state handed to T::Initialize, the wrapper's state when the
\* call was made, the wrapper's Initialized flag while the entry point of T
\* ran, and what the entry point T::Initialize returned
Op(o, w, r, c) ==
    [op |-> o, w |-> w, result |-> r, calls |-> c,
     arg |-> 0, method |-> "", ctors |-> [f \in AllFields |-> "-"],
     proxy |-> ZeroProxy, ret |-> NULL, value |-> 0, entered |-> NoMem,
     from |-> IF w = NULL THEN "-" ELSE State(w),
     liveAtCall |-> FALSE, returned |-> "-"]

NoOp == Op("none", NULL, "ok", <<>>)

NoPeriod == [w |-> NULL, mem |-> NoMem, n |-> 0]

\* the wrappers of the build without DI_DEBUG as constructed; ub: the build
\* has run into undefined behaviour, after which its state means nothing
Release_Init ==
    [Initialized |-> [w \in Wrappers |-> FALSE],
     SetDeps     |-> [w \in Wrappers |-> FALSE],
     Instance    |-> [w \in Wrappers |-> NULL],
     Memory      |-> [w \in Wrappers |-> ZeroBytes(w)],
     Deps        |-> [w \in Wrappers |-> DefaultDeps(w)],
     calls       |-> <<>>,
     ret         |-> NULL,
     ub          |-> FALSE]

\* no test function of Tester.cpp is being run
NoRun ==
    [test |-> "none", pc |-> 0, calls |-> <<>>, values |-> <<>>, result |-> "none",
     verdict |-> "none"]

\* DependencyInjected(): explicit constructor and member initializers
Init ==
    /\ exists = [w \in Wrappers |-> TRUE]
    /\ Initialized = [w \in Wrappers |-> FALSE]
    /\ SetDeps = [w \in Wrappers |-> FALSE]
    /\ Instance = [w \in Wrappers |-> NULL]
    /\ Memory = [w \in Wrappers |-> ZeroBytes(w)]
    /\ Deps = [w \in Wrappers |-> DefaultDeps(w)]
    /\ violation = "none"
    /\ lastOp = NoOp
    /\ lastPeriod = NoPeriod
    /\ initResult = [w \in Wrappers |-> "-"]
    /\ rel = Release_Init
    /\ run = NoRun

\* a call can be made: the wrapper is in scope and the run has not been trapped
Callable(w) == exists[w] /\ violation = "none"

\* DI_DEBUG_BREAK(): the run ends with the violation; nothing else is written
Trap(kind, op) ==
    /\ violation' = kind
    /\ lastOp' = op
    /\ UNCHANGED <<exists, Initialized, SetDeps, Instance, Memory, Deps, lastPeriod, initResult>>

\* SetDependencies without its check
SetDependencies_Unchecked(w) == TRUE

\* SetDependencies that refuses a second descriptor
SetDependencies_Assert_Unbound(w) == ~SetDeps[w] /\ ~IsInitialized(w)

\* SetDependencies: the assertion
SetDependencies_Assert(w) == ~IsInitialized(w)

\* w.SetDependencies({ ... }) with the descriptor built by the constructor
\* expressions ctors (member -> expression)
SetDependencies(w, ctors) ==
    /\ Callable(w)
    /\ LET deps == [f \in Fields(w) |-> MakeProxy(w, f, ctors[f])]
           rec(r) == [Op("bind", w, r, <<>>) EXCEPT
                        !.ctors = [f \in AllFields |->
                                     IF f \in Fields(w) THEN ctors[f] ELSE "-"]]
       IN  IF \E f \in Fields(w) : CtorBreaks(w, f, ctors[f])
           THEN Trap("MissingRequiredDependency", rec("MissingRequiredDependency"))
           ELSE IF Breaks(SetDependencies_Assert(w))
           THEN Trap("AlreadyLive", rec("AlreadyLive"))
           ELSE /\ Deps' = [Deps EXCEPT ![w] = deps]
                /\ SetDeps' = [SetDeps EXCEPT ![w] = TRUE]
                /\ lastOp' = rec("ok")
                /\ lastPeriod' = IF lastPeriod.w = w THEN NoPeriod ELSE lastPeriod
                /\ initResult' = initResult
                /\ UNCHANGED <<exists, Initialized, Instance, Memory, violation>>

\* Initialize that checks only for double initialization
Initialize_Assert_NoBoundCheck(w) == ~IsInitialized(w)

\* Initialize that checks only for the bound descriptor
Initialize_Assert_NoLiveCheck(w) == SetDeps[w]

\* Initialize that also wants the targets of the Required members live
Initialize_Assert_TargetsLive(w) ==
    /\ SetDeps[w] /\ ~IsInitialized(w)
    /\ \A f \in Fields(w) :
          IsRequired(w, f) => OptionalDependency_IsInitialized(Deps[w][f])

\* Initialize: the assertion
Initialize_Assert(w) == SetDeps[w] /\ ~IsInitialized(w)

\* what T::Initialize can return: bool, but void for LeafObject.
\* The success indicator is the component's to decide; Widget stands for a
\* component that may report failure, Cog for one that never does
Returns(w) ==
    CASE w = "widget" -> {"true", "false"}
      [] w \in {"cog", "branch", "impl", "user"} -> {"true"}
      [] OTHER        -> {"void"}

\* Initialize that turns the component's result into success
Initialize_Return_Success(r) == "true"

\* return Instance->Initialize(Deps, args...): the value Initialize returns
\* for the value r the entry point returned
Initialize_Return(r) == r

\* w.Initialize(arg), in the order of its statements: the flag is set, the
\* instance is constructed in the slot, the entry point of T runs; an
\* assertion that fails inside the entry point ends the run there
Initialize(w, arg) ==
    /\ Callable(w)
    /\ IF Breaks(Initialize_Assert(w))
       THEN LET kind == IF ~SetDeps[w] THEN "DependenciesNotBound" ELSE "AlreadyLive"
            IN  Trap(kind, [Op("initialize", w, kind, <<>>) EXCEPT !.arg = arg])
       ELSE LET flag == [Initialized EXCEPT ![w] = TRUE]
                built == Construct(w, Memory[w])
                ran == T_Initialize_Run(w, built, Deps[w], arg)
            IN  /\ Initialized' = flag
                /\ Instance' = [Instance EXCEPT ![w] = GetObjectPtr(w)]
                /\ Memory' = [Memory EXCEPT ![w] = ran.mem]
                /\ IF ran.trap # "none"
                   THEN /\ violation' = ran.trap
                        /\ initResult' = initResult
                        /\ lastOp' = [Op("initialize", w, ran.trap, ran.calls)
                                         EXCEPT !.arg = arg, !.entered = built,
                                                !.liveAtCall = flag[w]]
                   ELSE /\ violation' = violation
                        /\ \E r \in Returns(w) :
                              /\ initResult' = [initResult EXCEPT ![w] = Initialize_Return(r)]
                              /\ lastOp' = [Op("initialize", w, "ok", ran.calls)
                                              EXCEPT !.arg = arg, !.entered = built,
                                                     !.liveAtCall = flag[w],
                                                     !.returned = r]
                /\ UNCHANGED <<exists, SetDeps, Deps, lastPeriod>>

\* Shutdown that clears the instance pointer and leaves the flag set
ShutdownEffect_KeepsFlag(w) ==
    IF Instance[w] # NULL
    THEN LET down == T_Shutdown_Run(w, Memory[w])
             gone == T_Destruct_Run(w, down.mem)
         IN  [Initialized |-> Initialized[w], Instance |-> NULL, Memory |-> ZeroBytes(w),
              lastPeriod |-> [w |-> w, mem |-> Memory[w],
                              n |-> IF lastPeriod.w # w THEN 1
                                    ELSE IF lastPeriod.n < MaxCycles THEN lastPeriod.n + 1
                                    ELSE MaxCycles],
              calls |-> down.calls \o gone.calls, liveAtCall |-> Initialized[w],
              trap |-> "none"]
    ELSE [Initialized |-> Initialized[w], Instance |-> Instance[w], Memory |-> Memory[w],
          lastPeriod |-> lastPeriod, calls |-> <<>>, liveAtCall |-> FALSE, trap |-> "none"]

\* Shutdown that clears the flag before it calls T::Shutdown
ShutdownEffect_ClearFirst(w) ==
    IF Instance[w] # NULL
    THEN LET down == T_Shutdown_Run(w, Memory[w])
             gone == T_Destruct_Run(w, down.mem)
         IN  [Initialized |-> FALSE, Instance |-> NULL, Memory |-> ZeroBytes(w),
              lastPeriod |-> [w |-> w, mem |-> Memory[w],
                              n |-> IF lastPeriod.w # w THEN 1
                                    ELSE IF lastPeriod.n < MaxCycles THEN lastPeriod.n + 1
                                    ELSE MaxCycles],
              calls |-> down.calls \o gone.calls, liveAtCall |-> FALSE, trap |-> "none"]
    ELSE [Initialized |-> Initialized[w], Instance |-> Instance[w], Memory |-> Memory[w],
          lastPeriod |-> lastPeriod, calls |-> <<>>, liveAtCall |-> FALSE, trap |-> "none"]

\* the body of Shutdown as the new values of the fields it writes, with the
\* calls it makes, the flag as T::Shutdown finds it (cleared last), and the
\* assertion that stopped it, if one failed in T::Shutdown or in ~T()
ShutdownEffect(w) ==
    IF Instance[w] # NULL
    THEN LET down == T_Shutdown_Run(w, Memory[w])
             gone == T_Destruct_Run(w, down.mem)
         IN  IF down.trap # "none"
             THEN [Initialized |-> Initialized[w], Instance |-> Instance[w],
                   Memory |-> down.mem, lastPeriod |-> lastPeriod, calls |-> down.calls,
                   liveAtCall |-> Initialized[w], trap |-> down.trap]
             ELSE IF gone.trap # "none"
             THEN [Initialized |-> Initialized[w], Instance |-> Instance[w],
                   Memory |-> gone.mem, lastPeriod |-> lastPeriod,
                   calls |-> down.calls \o gone.calls,
                   liveAtCall |-> Initialized[w], trap |-> gone.trap]
             ELSE [Initialized |-> FALSE, Instance |-> NULL, Memory |-> ZeroBytes(w),
                   lastPeriod |-> [w |-> w, mem |-> Memory[w],
                                   n |-> IF lastPeriod.w # w THEN 1
                                         ELSE IF lastPeriod.n < MaxCycles THEN lastPeriod.n + 1
                                         ELSE MaxCycles],
                   calls |-> down.calls \o gone.calls,
                   liveAtCall |-> Initialized[w], trap |-> "none"]
    ELSE [Initialized |-> Initialized[w], Instance |-> Instance[w], Memory |-> Memory[w],
          lastPeriod |-> lastPeriod, calls |-> <<>>, liveAtCall |-> FALSE, trap |-> "none"]

\* Shutdown that also resets the bound flag
Shutdown_Unbinds(w) ==
    /\ Callable(w)
    /\ LET e == ShutdownEffect(w)
       IN  /\ Initialized' = [Initialized EXCEPT ![w] = e.Initialized]
           /\ Instance' = [Instance EXCEPT ![w] = e.Instance]
           /\ Memory' = [Memory EXCEPT ![w] = e.Memory]
           /\ lastPeriod' = e.lastPeriod
           /\ initResult' = [initResult EXCEPT ![w] = "-"]
           /\ violation' = IF e.trap = "none" THEN violation ELSE e.trap
           /\ lastOp' = [Op("shutdown", w, IF e.trap = "none" THEN "ok" ELSE e.trap, e.calls)
                            EXCEPT !.liveAtCall = e.liveAtCall]
    /\ SetDeps' = [SetDeps EXCEPT ![w] = FALSE]
    /\ UNCHANGED <<exists, Deps>>

\* w.Shutdown()
Shutdown(w) ==
    /\ Callable(w)
    /\ LET e == ShutdownEffect(w)
       IN  /\ Initialized' = [Initialized EXCEPT ![w] = e.Initialized]
           /\ Instance' = [Instance EXCEPT ![w] = e.Instance]
           /\ Memory' = [Memory EXCEPT ![w] = e.Memory]
           /\ lastPeriod' = e.lastPeriod
           /\ initResult' = [initResult EXCEPT ![w] = "-"]
           /\ violation' = IF e.trap = "none" THEN violation ELSE e.trap
           /\ lastOp' = [Op("shutdown", w, IF e.trap = "none" THEN "ok" ELSE e.trap, e.calls)
                            EXCEPT !.liveAtCall = e.liveAtCall]
    /\ UNCHANGED <<exists, SetDeps, Deps>>

\* destructor without its check
Destructor_Unchecked(w) == TRUE

\* ~DependencyInjected: the assertion
Destructor_Assert(w) == ~IsInitialized(w)

\* ~DependencyInjected(): w goes out of scope. The storage it leaves behind is
\* no longer an object: the flag a dangling proxy would read there is garbage,
\* and the descriptor it held is gone.
Destroy(w) ==
    /\ Callable(w)
    /\ IF Breaks(Destructor_Assert(w))
       THEN Trap("DestroyedWhileLive", Op("destroy", w, "DestroyedWhileLive", <<>>))
       ELSE LET e == ShutdownEffect(w)
            IN  /\ \E garbage \in BOOLEAN :
                      Initialized' = [Initialized EXCEPT ![w] = garbage]
                /\ Instance' = [Instance EXCEPT ![w] = e.Instance]
                /\ Memory' = [Memory EXCEPT ![w] = e.Memory]
                /\ lastPeriod' = e.lastPeriod
                /\ initResult' = [initResult EXCEPT ![w] = "-"]
                /\ exists' = [exists EXCEPT ![w] = FALSE]
                /\ lastOp' = [Op("destroy", w, IF e.trap = "none" THEN "ok" ELSE e.trap,
                                 e.calls) EXCEPT !.liveAtCall = e.liveAtCall]
                /\ SetDeps' = [SetDeps EXCEPT ![w] = FALSE]
                /\ Deps' = [Deps EXCEPT ![w] = DefaultDeps(w)]
                /\ violation' = IF e.trap = "none" THEN violation ELSE e.trap

\* operator-> that checks the bound flag instead of the liveness flag
Arrow_Assert_Bound(w) == SetDeps[w]

\* DependencyInjected::operator->: the assertion
Arrow_Assert(w) == IsInitialized(w)

\* the wrapper whose slot an address points into
SlotOf(addr) == CHOOSE w \in DOMAIN SlotAddr : SlotAddr[w] = addr

\* a call's outcome: how it ended ("NullCall": a method called through a null
\* pointer, which no checked run reaches), the methods entered, the value it
\* observed
Outcome(r, c, v) == [result |-> r, calls |-> c, value |-> v]

\* Cog::DoCogThing2() on the instance in slot mem
DoCogThing2(mem) == Outcome("ok", <<"Cog::DoCogThing2">>, 0)

\* Widget::DoWidgetThing() on the instance in slot mem
DoWidgetThing(mem) ==
    LET here == <<"Widget::DoWidgetThing">>
        p == mem.Deps["cog"]
    IN  IF Breaks(OptionalDependency_Arrow_Assert(p))
        THEN Outcome("NotLive", here, mem.ParameterX)
        ELSE IF p.Reference = NULL
        THEN Outcome("NullCall", here, mem.ParameterX)
        ELSE LET r == DoCogThing2(Memory[SlotOf(p.Reference)])
             IN  Outcome(r.result, here \o r.calls, mem.ParameterX)

\* Cog::DoCogThing() on the instance in slot mem
DoCogThing(mem) ==
    LET here == <<"Cog::DoCogThing">>
        p == mem.Deps["widget"]
        q == mem.Deps["optionalWidget"]
    IN  IF Breaks(OptionalDependency_Arrow_Assert(p))
        THEN Outcome("NotLive", here, 0)
        ELSE IF p.Reference = NULL
        THEN Outcome("NullCall", here, 0)
        ELSE LET r1 == DoWidgetThing(Memory[SlotOf(p.Reference)])
             IN  IF r1.result # "ok" \/ ~OptionalDependency_IsInitialized(q)
                 THEN Outcome(r1.result, here \o r1.calls, r1.value)
                 ELSE IF Breaks(OptionalDependency_Arrow_Assert(q))
                 THEN Outcome("NotLive", here \o r1.calls, r1.value)
                 ELSE IF q.Reference = NULL
                 THEN Outcome("NullCall", here \o r1.calls, r1.value)
                 ELSE LET r2 == DoWidgetThing(Memory[SlotOf(q.Reference)])
                      IN  Outcome(r2.result, here \o r1.calls \o r2.calls, r2.value)

\* LeafObject::DoThing() on the instance in slot mem: return ++ParameterX
DoThing(mem) == Outcome("ok", <<"LeafObject::DoThing">>, mem.ParameterX + 1)

\* BranchObject::DoThing(), MyImplementation::DoThing() on the instance in
\* slot mem of wrapper w: return Leaf->DoThing()
Owner_DoThing(w, mem) ==
    LET o == Member_DoThing(Member(mem.Leaf, <<EntryName(w, "DoThing")>>))
    IN  Outcome(IF o.trap = "none" THEN "ok" ELSE o.trap, o.calls, o.value)

\* InterfaceUser::DoThing() on the instance in slot mem:
\* return Deps.Branch->DoThing()
User_DoThing(mem) ==
    LET here == <<"InterfaceUser::DoThing">>
        p == mem.Deps["Branch"]
    IN  IF Breaks(OptionalDependency_Arrow_Assert(p))
        THEN Outcome("NotLive", here, 0)
        ELSE IF p.Reference = NULL
        THEN Outcome("NullCall", here, 0)
        ELSE LET r == Owner_DoThing(SlotOf(p.Reference), Memory[SlotOf(p.Reference)])
             IN  Outcome(r.result, here \o r.calls, r.value)

\* the slots after method m, called through w, returned value v: ++ParameterX
\* of the LeafObject the call reached
MemoryAfter(w, m, v) ==
    CASE m # "DoThing" -> Memory
      [] m = "DoThing" /\ OwnsLeaf(w) ->
           [Memory EXCEPT ![w].Leaf.Memory.ParameterX = v]
      [] m = "DoThing" /\ w = "user" ->
           [Memory EXCEPT ![SlotOf(Memory[w].Deps["Branch"].Reference)].Leaf.Memory.ParameterX = v]
      [] OTHER -> [Memory EXCEPT ![w].ParameterX = v]

\* w->m(): operator-> on the wrapper, then the method on the instance returned
Access(w, m) ==
    /\ Callable(w)
    /\ IF Breaks(Arrow_Assert(w))
       THEN Trap("NotLive", [Op("access", w, "NotLive", <<>>) EXCEPT !.method = m])
       ELSE LET mem == Memory[SlotOf(Instance[w])]
                r == CASE m = "DoCogThing"    -> DoCogThing(mem)
                       [] m = "DoCogThing2"   -> DoCogThing2(mem)
                       [] m = "DoWidgetThing" -> DoWidgetThing(mem)
                       [] m = "DoThing" /\ OwnsLeaf(w) -> Owner_DoThing(w, mem)
                       [] m = "DoThing" /\ w = "user" -> User_DoThing(mem)
                       [] OTHER               -> DoThing(mem)
                rec(o) == [Op("access", w, o.result, o.calls) EXCEPT
                             !.method = m, !.ret = Instance[w], !.value = o.value]
            IN  /\ w = "leaf" => mem.ParameterX < LeafParameterX + MaxCount
                /\ IF r.result # "ok"
                   THEN Trap(r.result, rec(r))
                   ELSE /\ lastOp' = rec(r)
                        /\ Memory' = MemoryAfter(w, m, r.value)
                        /\ UNCHANGED <<exists, Initialized, SetDeps, Instance, Deps,
                                       violation, lastPeriod, initResult>>

\* the proxies in being: members of the bound descriptors and the copies the
\* constructed instances hold
BoundProxies == {Deps[w][f] : <<w, f>> \in {x \in Wrappers \X {"widget", "optionalWidget", "cog"} :
                                  x[2] \in Fields(x[1]) /\ exists[x[1]] /\ SetDeps[x[1]]}}

HeldProxies == {Memory[w].Deps[f] : <<w, f>> \in {x \in Wrappers \X {"widget", "optionalWidget", "cog"} :
                                  x[2] \in Fields(x[1]) /\ exists[x[1]] /\ Instance[x[1]] # NULL}}

AllProxies == BoundProxies \cup HeldProxies

\* P-> on a proxy in being; returns Reference
ProxyAccess(p) ==
    /\ violation = "none"
    /\ p \in AllProxies
    /\ IF Breaks(OptionalDependency_Arrow_Assert(p))
       THEN Trap("NotLive", [Op("proxyAccess", p.Wrapper, "NotLive", <<>>) EXCEPT
                               !.proxy = p])
       ELSE /\ lastOp' = [Op("proxyAccess", p.Wrapper, "ok", <<>>) EXCEPT
                            !.proxy = p, !.ret = p.Reference]
            /\ UNCHANGED <<exists, Initialized, SetDeps, Instance, Memory, Deps,
                           violation, lastPeriod, initResult>>

\* ------------------------------------------------- the build without DI_DEBUG
\* DI_DEBUG_ASSERT(cond) expands to nothing: each operation is its body without
\* the assertion, as a function of the wrappers' fields s

\* the fields of the checked build that the unchecked build has too
Checked ==
    [Initialized |-> Initialized, SetDeps |-> SetDeps, Instance |-> Instance,
     Memory |-> Memory, Deps |-> Deps, calls |-> lastOp.calls, ret |-> lastOp.ret,
     ub |-> FALSE]

\* a call through a null pointer
Release_UB(s) == [s EXCEPT !.calls = <<>>, !.ret = NULL, !.ub = TRUE]

\* SetDependencies(deps)
Release_SetDependencies(s, w, deps) ==
    [s EXCEPT !.Deps[w] = deps, !.SetDeps[w] = TRUE, !.calls = <<>>, !.ret = NULL]

\* Initialize whose flag is set inside the elided assertion
Release_Initialize_FlagInAssert(s, w, arg) ==
    [s EXCEPT !.Instance[w] = GetObjectPtr(w),
              !.Memory[w] = T_Initialize(w, Construct(w, s.Memory[w]), s.Deps[w], arg),
              !.calls = <<EntryName(w, "Initialize")>>, !.ret = NULL]

\* Initialize(args...)
Release_Initialize(s, w, arg) ==
    [s EXCEPT !.Initialized[w] = TRUE,
              !.Instance[w] = GetObjectPtr(w),
              !.Memory[w] = T_Initialize(w, Construct(w, s.Memory[w]), s.Deps[w], arg),
              !.calls = <<EntryName(w, "Initialize")>>, !.ret = NULL]

\* Shutdown()
Release_Shutdown(s, w) ==
    IF s.Instance[w] # NULL
    THEN [s EXCEPT !.Initialized[w] = FALSE, !.Instance[w] = NULL,
                   !.Memory[w] = ZeroBytes(w),
                   !.calls = <<EntryName(w, "Shutdown")>>, !.ret = NULL]
    ELSE [s EXCEPT !.calls = <<>>, !.ret = NULL]

\* ~DependencyInjected(): Shutdown(), then the storage is given up; leftover
\* is what stays in the place of the flag
Release_Destroy(s, w, leftover) ==
    [Release_Shutdown(s, w) EXCEPT !.Initialized[w] = leftover, !.SetDeps[w] = FALSE,
                                   !.Deps[w] = DefaultDeps(w)]

\* OptionalDependency::IsInitialized()
Release_IsInitialized(s, p) == p.Wrapper # NULL /\ s.Initialized[p.Wrapper]

\* Widget::DoWidgetThing(): Deps.cog-> returns Reference unchecked
Release_DoWidgetThing(s, mem) ==
    LET here == <<"Widget::DoWidgetThing">>
        p == mem.Deps["cog"]
    IN  IF p.Reference = NULL
        THEN Outcome("NullCall", here, mem.ParameterX)
        ELSE LET r == DoCogThing2(s.Memory[SlotOf(p.Reference)])
             IN  Outcome(r.result, here \o r.calls, mem.ParameterX)

\* Cog::DoCogThing()
Release_DoCogThing(s, mem) ==
    LET here == <<"Cog::DoCogThing">>
        p == mem.Deps["widget"]
        q == mem.Deps["optionalWidget"]
    IN  IF p.Reference = NULL
        THEN Outcome("NullCall", here, 0)
        ELSE LET r1 == Release_DoWidgetThing(s, s.Memory[SlotOf(p.Reference)])
             IN  IF r1.result # "ok" \/ ~Release_IsInitialized(s, q)
                 THEN Outcome(r1.result, here \o r1.calls, r1.value)
                 ELSE IF q.Reference = NULL
                 THEN Outcome("NullCall", here \o r1.calls, r1.value)
                 ELSE LET r2 == Release_DoWidgetThing(s, s.Memory[SlotOf(q.Reference)])
                      IN  Outcome(r2.result, here \o r1.calls \o r2.calls, r2.value)

\* w->m(): operator-> returns Instance unchecked
Release_Access(s, w, m) ==
    IF s.Instance[w] = NULL
    THEN Release_UB(s)
    ELSE LET mem == s.Memory[SlotOf(s.Instance[w])]
             r == CASE m = "DoCogThing"    -> Release_DoCogThing(s, mem)
                    [] m = "DoCogThing2"   -> DoCogThing2(mem)
                    [] m = "DoWidgetThing" -> Release_DoWidgetThing(s, mem)
                    [] OTHER               -> DoThing(mem)
         IN  IF r.result # "ok"
             THEN Release_UB(s)
             ELSE [s EXCEPT !.calls = r.calls, !.ret = s.Instance[w],
                            !.Memory[w] = IF m = "DoThing"
                                          THEN [@ EXCEPT !.ParameterX = r.value]
                                          ELSE @]

\* P-> on a proxy: returns Reference unchecked
Release_ProxyAccess(s, p) == [s EXCEPT !.calls = <<>>, !.ret = p.Reference]

\* TEST_EXPECT_ASSERT / TEST_EXPECT_NOASSERT: after a trapped test, or one that
\* returned (all its wrappers destroyed), the next test declares fresh wrappers
NewTest ==
    /\ violation # "none" \/ \A w \in Wrappers : ~exists[w]
    /\ exists' = [w \in Wrappers |-> TRUE]
    /\ Initialized' = [w \in Wrappers |-> FALSE]
    /\ SetDeps' = [w \in Wrappers |-> FALSE]
    /\ Instance' = [w \in Wrappers |-> NULL]
    /\ Memory' = [w \in Wrappers |-> ZeroBytes(w)]
    /\ Deps' = [w \in Wrappers |-> DefaultDeps(w)]
    /\ violation' = "none"
    /\ lastOp' = Op("newTest", NULL, "ok", <<>>)
    /\ lastPeriod' = NoPeriod
    /\ initResult' = [w \in Wrappers |-> "-"]
    /\ rel' = Release_Init
    /\ run' = run

\* every call is made on both builds
Next ==
    \/ \E w \in Wrappers : \E ctors \in [Fields(w) -> Ctors] :
          /\ SetDependencies(w, ctors)
          /\ run' = run
          /\ rel' = Release_SetDependencies(rel, w, [f \in Fields(w) |-> MakeProxy(w, f, ctors[f])])
    \/ \E w \in Wrappers : \E arg \in ArgsOf(w) :
          /\ Initialize(w, arg)
          /\ run' = run
          /\ rel' = Release_Initialize(rel, w, arg)
    \/ \E w \in Wrappers :
          /\ Shutdown(w)
          /\ run' = run
          /\ rel' = Release_Shutdown(rel, w)
    \/ \E w \in Wrappers : \E m \in Methods(w) :
          /\ Access(w, m)
          /\ run' = run
          /\ rel' = Release_Access(rel, w, m)
    \/ \E p \in AllProxies :
          /\ ProxyAccess(p)
          /\ run' = run
          /\ rel' = Release_ProxyAccess(rel, p)
    \/ \E w \in Wrappers :
          /\ Destroy(w)
          /\ run' = run
          /\ rel' = Release_Destroy(rel, w, Initialized'[w])
    \/ NewTest

Spec == Init /\ [][Next]_vars

\* ------------------------------------------------ the tests of Tester.cpp
\* a statement of a test function
Stm(o, w) ==
    [op |-> o, w |-> w, ctors |-> [f \in AllFields |-> "-"], arg |-> 0, method |-> ""]

\* DependencyInjected<T> w;
Decl(w) == Stm("declare", w)

\* w.SetDependencies({...}), the members built by the constructors c
Bind(w, c) ==
    [Stm("bind", w) EXCEPT !.ctors = [f \in AllFields |-> IF f \in DOMAIN c THEN c[f] ELSE "-"]]

\* w.Initialize(x)
Start(w, x) == [Stm("initialize", w) EXCEPT !.arg = x]

\* w->m()
Call(w, m) == [Stm("access", w) EXCEPT !.method = m]

\* w.Shutdown()
Stop(w) == Stm("shutdown", w)

\* w goes out of scope at the closing brace
Gone(w) == Stm("destroy", w)

\* { &widget, nullptr }, { cog }, { nullWidget, nullptr }, { }, { branch }
CogDeps == [widget |-> "ptr", optionalWidget |-> "nullptr"]
WidgetDeps == [cog |-> "ref"]
NullWidgetDeps == [widget |-> "nullptr", optionalWidget |-> "nullptr"]
NoDependencies == <<>>
UserDeps == [Branch |-> "ref"]

\* the test functions RunTests runs
Tests ==
    {"Test_PeerObjects", "Test_NestedDeps", "Test_DerivedClass", "Test_Forget_SetDep",
     "Test_Forget_InitCog", "Test_Forget_InitWidget", "Test_Forget_ShutdownWidget",
     "Test_Forget_ShutdownCog"}

\* the statements of each test function, the destructors of its wrappers
\* last, in the reverse order of the declarations
Script(t) ==
    CASE t = "Test_PeerObjects" ->
           <<Decl("cog"), Decl("widget"), Bind("cog", CogDeps), Bind("widget", WidgetDeps),
             Start("cog", 0), Start("widget", WidgetParameterX), Call("cog", "DoCogThing"),
             Stop("widget"), Stop("cog"), Gone("widget"), Gone("cog")>>
      [] t = "Test_NestedDeps" ->
           <<Decl("branch"), Bind("branch", NoDependencies), Start("branch", LeafParameterX),
             Call("branch", "DoThing"), Call("branch", "DoThing"), Call("branch", "DoThing"),
             Stop("branch"), Gone("branch")>>
      [] t = "Test_DerivedClass" ->
           <<Decl("impl"), Decl("user"), Bind("impl", NoDependencies), Bind("user", UserDeps),
             Start("impl", LeafParameterX), Start("user", 0),
             Call("user", "DoThing"), Call("user", "DoThing"), Call("user", "DoThing"),
             Stop("impl"), Stop("user"), Gone("user"), Gone("impl")>>
      [] t = "Test_Forget_SetDep" ->
           <<Decl("cog"), Decl("widget"), Bind("cog", NullWidgetDeps),
             Gone("widget"), Gone("cog")>>
      [] t = "Test_Forget_InitCog" ->
           <<Decl("cog"), Decl("widget"), Bind("cog", CogDeps), Bind("widget", WidgetDeps),
             Start("widget", WidgetParameterX), Call("cog", "DoCogThing"),
             Stop("widget"), Stop("cog"), Gone("widget"), Gone("cog")>>
      [] t = "Test_Forget_InitWidget" ->
           <<Decl("cog"), Decl("widget"), Bind("cog", CogDeps), Bind("widget", WidgetDeps),
             Start("cog", 0), Call("cog", "DoCogThing"),
             Stop("widget"), Stop("cog"), Gone("widget"), Gone("cog")>>
      [] t = "Test_Forget_ShutdownWidget" ->
           <<Decl("cog"), Decl("widget"), Bind("cog", CogDeps), Bind("widget", WidgetDeps),
             Start("cog", 0), Start("widget", WidgetParameterX), Call("cog", "DoCogThing"),
             Stop("cog"), Gone("widget"), Gone("cog")>>
      [] OTHER ->
           <<Decl("cog"), Decl("widget"), Bind("cog", CogDeps), Bind("widget", WidgetDeps),
             Start("cog", 0), Start("widget", WidgetParameterX), Call("cog", "DoCogThing"),
             Stop("widget"), Gone("widget"), Gone("cog")>>

\* TEST_EXPECT_NOASSERT for the first three tests of RunTests, TEST_EXPECT_ASSERT
\* for the others: how the test function is expected to end
Expected(t) ==
    IF t \in {"Test_PeerObjects", "Test_NestedDeps", "Test_DerivedClass"}
    THEN "returned" ELSE "asserted"

\* before any test function runs: no wrapper is in scope
InitTests ==
    /\ exists = [w \in TestWrappers |-> FALSE]
    /\ Initialized = [w \in TestWrappers |-> FALSE]
    /\ SetDeps = [w \in TestWrappers |-> FALSE]
    /\ Instance = [w \in TestWrappers |-> NULL]
    /\ Memory = [w \in TestWrappers |-> ZeroBytes(w)]
    /\ Deps = [w \in TestWrappers |-> DefaultDeps(w)]
    /\ violation = "none"
    /\ lastOp = NoOp
    /\ lastPeriod = NoPeriod
    /\ initResult = [w \in TestWrappers |-> "-"]
    /\ rel = Release_Init
    /\ run = NoRun

\* function(): RunTests, which has not returned false, enters a test function,
\* with nothing in scope
TestCall(t) ==
    /\ run = NoRun \/ run.verdict = "passed"
    /\ exists' = [w \in TestWrappers |-> FALSE]
    /\ Initialized' = [w \in TestWrappers |-> FALSE]
    /\ SetDeps' = [w \in TestWrappers |-> FALSE]
    /\ Instance' = [w \in TestWrappers |-> NULL]
    /\ Memory' = [w \in TestWrappers |-> ZeroBytes(w)]
    /\ Deps' = [w \in TestWrappers |-> DefaultDeps(w)]
    /\ violation' = "none"
    /\ lastOp' = Op("newTest", NULL, "ok", <<>>)
    /\ lastPeriod' = NoPeriod
    /\ initResult' = [w \in TestWrappers |-> "-"]
    /\ run' = [test |-> t, pc |-> 1, calls |-> <<>>, values |-> <<>>, result |-> "running",
               verdict |-> "none"]
    /\ UNCHANGED rel

\* DependencyInjected<T> w; the constructor and the member initializers
Declare(w) ==
    /\ violation = "none" /\ ~exists[w]
    /\ exists' = [exists EXCEPT ![w] = TRUE]
    /\ Initialized' = [Initialized EXCEPT ![w] = FALSE]
    /\ SetDeps' = [SetDeps EXCEPT ![w] = FALSE]
    /\ Instance' = [Instance EXCEPT ![w] = NULL]
    /\ Memory' = [Memory EXCEPT ![w] = ZeroBytes(w)]
    /\ Deps' = [Deps EXCEPT ![w] = DefaultDeps(w)]
    /\ lastOp' = Op("declare", w, "ok", <<>>)
    /\ UNCHANGED <<violation, lastPeriod, initResult>>

\* the next statement of the test function is executed
Statement ==
    /\ run.result = "running" /\ violation = "none"
    /\ run.pc <= Len(Script(run.test))
    /\ LET st == Script(run.test)[run.pc]
       IN  CASE st.op = "declare"    -> Declare(st.w)
             [] st.op = "bind"       ->
                  SetDependencies(st.w, [f \in Fields(st.w) |-> st.ctors[f]])
             [] st.op = "initialize" -> Initialize(st.w, st.arg)
             [] st.op = "access"     -> Access(st.w, st.method)
             [] st.op = "shutdown"   -> Shutdown(st.w)
             [] OTHER                -> Destroy(st.w)
    /\ run' = [run EXCEPT !.pc = @ + 1,
                          !.calls = @ \o lastOp'.calls,
                          !.values = IF lastOp'.op = "access" /\ lastOp'.method = "DoThing"
                                        /\ lastOp'.result = "ok"
                                     THEN Append(@, lastOp'.value) ELSE @]
    /\ UNCHANGED rel

\* __try { function(); } __except (true): the test function returned, or an
\* assertion ended it
TestEnds ==
    /\ run.result = "running"
    /\ violation # "none" \/ run.pc > Len(Script(run.test))
    /\ run' = [run EXCEPT !.result = IF violation = "none" THEN "returned" ELSE "asserted"]
    /\ UNCHANGED <<exists, Initialized, SetDeps, Instance, Memory, Deps, violation,
                   lastOp, lastPeriod, initResult, rel>>

\* TEST_EXPECT_NOASSERT, TEST_EXPECT_ASSERT: RunTests goes on when the test
\* function ended as expected, and returns false when it did not
Verdict ==
    /\ run.result \in {"returned", "asserted"} /\ run.verdict = "none"
    /\ run' = [run EXCEPT !.verdict = IF run.result = Expected(run.test)
                                       THEN "passed" ELSE "failed"]
    /\ UNCHANGED <<exists, Initialized, SetDeps, Instance, Memory, Deps, violation,
                   lastOp, lastPeriod, initResult, rel>>

NextTests ==
    \/ \E t \in Tests : TestCall(t)
    \/ Statement
    \/ TestEnds
    \/ Verdict

SpecTests == InitTests /\ [][NextTests]_vars

\* ================================================================ claims
\* the step just taken is the call op on wrapper w
Did(op, w) == lastOp'.op = op /\ lastOp'.w = w

\* w is the same wrapper object before and after the step
Same(w) == exists[w] /\ exists'[w] /\ lastOp'.op # "newTest"

C2_ProxyTracksTarget ==
    \A p \in AllProxies :
        (p.Wrapper # NULL /\ exists[p.Wrapper]) =>
            (OptionalDependency_IsInitialized(p) = (State(p.Wrapper) = "Live"))

\* C2 witness: a proxy held by the Live cog, whose target widget was Live and
\* has just been shut down, reports not live
C2_Witness ==
    /\ lastOp.op = "shutdown" /\ lastOp.w = "widget" /\ lastPeriod.w = "widget"
    /\ State("cog") = "Live" /\ exists["cog"]
    /\ Memory["cog"].Deps["widget"].Wrapper = "widget"
    /\ Memory["cog"].Deps["widget"] \in AllProxies
    /\ ~OptionalDependency_IsInitialized(Memory["cog"].Deps["widget"])

\* C3: every successful initialize hands the initialization entry point a
\* brand-new constructed instance, and the instance it leaves depends only on
\* that, the bound descriptor and the arguments, never on an earlier period.
C3_FreshInstance ==
    (lastOp.op = "initialize" /\ lastOp.result = "ok") =>
        /\ lastOp.entered = FreshInstance(lastOp.w)
        /\ Memory[lastOp.w] =
              T_Initialize(lastOp.w, FreshInstance(lastOp.w), Deps[lastOp.w], lastOp.arg)

\* C3 witness: leaf is Live again after a period that left its counter
\* incremented, and the counter is back at the initialize argument
C3_Witness ==
    /\ lastOp.op = "initialize" /\ lastOp.result = "ok" /\ lastOp.w = "leaf"
    /\ lastPeriod.w = "leaf"
    /\ lastPeriod.mem.ParameterX = LeafParameterX + MaxCount
    /\ Memory["leaf"].ParameterX = LeafParameterX

\* C4: shutdown (and every call but bind) keeps the bound descriptor, and every
\* initialize from DepsBound succeeds and hands that descriptor to the entry
\* point, so initialize; shutdown repeats without re-binding.
C4_RepeatWithoutRebind ==
    [][\A w \in Wrappers :
        /\ (Same(w) /\ ~Did("bind", w)) =>
              (SetDeps'[w] = SetDeps[w] /\ Deps'[w] = Deps[w])
        /\ (Did("initialize", w) /\ State(w) = "DepsBound") =>
              /\ lastOp'.result = "ok" /\ violation' = "none"
              /\ State(w)' = "Live"
              /\ lastOp'.calls = <<EntryName(w, "Initialize")>>
              /\ w # "leaf" => Memory'[w].Deps = Deps[w]
    ]_vars

\* C4 witness: cog, wired to widget, is Live for at least the third time
\* since its descriptor was bound
C4_Witness ==
    /\ lastOp.op = "initialize" /\ lastOp.result = "ok" /\ lastOp.w = "cog"
    /\ lastPeriod.w = "cog" /\ lastPeriod.n >= 2
    /\ Memory["cog"].Deps["widget"].Wrapper = "widget"
    /\ Memory["cog"].Deps = lastPeriod.mem.Deps

\* C5: a freshly created wrapper is not live; operator-> on a wrapper that is
\* not Live is raised as NotLive before any method runs, whatever the other
\* wrappers' states; it reaches the instance exactly when the wrapper is Live.
C5_AccessNeedsLive ==
    [][\A w \in Wrappers :
        /\ lastOp.op \in {"none", "newTest"} =>
              (State(w) = "Empty" /\ ~IsInitialized(w))
        /\ Did("access", w) =>
              /\ State(w) # "Live" =>
                    /\ lastOp'.result = "NotLive" /\ violation' = "NotLive"
                    /\ lastOp'.calls = <<>>
              /\ State(w) = "Live" => lastOp'.calls # <<>>
    ]_vars

\* C5 witness: access to a wrapper back in DepsBound after a shutdown was
\* raised as NotLive while another wrapper is Live
C5_Witness ==
    /\ lastOp.op = "access" /\ violation = "NotLive" /\ lastOp.calls = <<>>
    /\ lastPeriod.w = lastOp.w
    /\ State(lastOp.w) = "DepsBound"
    /\ \E v \in Wrappers \ {lastOp.w} : exists[v] /\ State(v) = "Live"

\* C6: operator-> on a proxy whose target wrapper is not Live is raised as
\* NotLive, for a caller holding the proxy and for a Live component calling
\* through its own copy; with the target Live it returns the target's instance.
C6_ProxyAccessNeedsLive ==
    [][/\ lastOp'.op = "proxyAccess" =>
            LET p == lastOp'.proxy
            IN  (p.Wrapper # NULL /\ exists[p.Wrapper]) =>
                  IF State(p.Wrapper) = "Live"
                  THEN /\ lastOp'.result = "ok" /\ violation' = "none"
                       /\ lastOp'.ret = Instance[p.Wrapper]
                  ELSE lastOp'.result = "NotLive" /\ violation' = "NotLive"
       /\ (Did("access", "cog") /\ lastOp'.method = "DoCogThing" /\ State("cog") = "Live") =>
            LET p == Memory["cog"].Deps["widget"]
            IN  (p.Wrapper # NULL /\ exists[p.Wrapper]) =>
                  IF State(p.Wrapper) = "Live"
                  THEN /\ Len(lastOp'.calls) >= 2
                       /\ lastOp'.calls[2] = "Widget::DoWidgetThing"
                       /\ lastOp'.value = Memory[p.Wrapper].ParameterX
                  ELSE /\ lastOp'.result = "NotLive" /\ violation' = "NotLive"
                       /\ lastOp'.calls = <<"Cog::DoCogThing">>
    ]_vars

\* C6 witness: the Live cog called through its Required proxy to widget, which
\* had been Live and was shut down, and the call was raised as NotLive
C6_Witness ==
    /\ lastOp.op = "access" /\ lastOp.w = "cog" /\ violation = "NotLive"
    /\ lastOp.calls = <<"Cog::DoCogThing">>
    /\ State("cog") = "Live"
    /\ lastPeriod.w = "widget" /\ exists["widget"] /\ State("widget") = "DepsBound"
    /\ Memory["cog"].Deps["widget"].Wrapper = "widget"

C8_NoDoubleInitialize ==
    [][\A w \in Wrappers :
        (Did("initialize", w) /\ State(w) = "Live") =>
            /\ lastOp'.result = "AlreadyLive"
            /\ violation' = "AlreadyLive"
            /\ lastOp'.calls = <<>>
            /\ Instance' = Instance /\ Memory' = Memory
    ]_vars

\* C8 witness: initialize on the Live leaf was raised and the counter its
\* instance had reached is still there
C8_Witness ==
    /\ lastOp.op = "initialize" /\ lastOp.w = "leaf" /\ violation = "AlreadyLive"
    /\ Memory["leaf"].ParameterX = LeafParameterX + 1

\* C9: destroying a Live wrapper is raised as DestroyedWhileLive whatever the
\* other wrappers' states; destroying an Empty or DepsBound wrapper raises
\* nothing.
C9_DestroyNeedsShutdown ==
    [][\A w \in Wrappers :
        Did("destroy", w) =>
            IF State(w) = "Live"
            THEN lastOp'.result = "DestroyedWhileLive" /\ violation' = "DestroyedWhileLive"
            ELSE lastOp'.result = "ok" /\ violation' = "none" /\ ~exists'[w]
    ]_vars

\* C9 witness: cog was destroyed Live after widget had been shut down and
\* destroyed without a violation
C9_Witness ==
    /\ lastOp.op = "destroy" /\ lastOp.w = "cog" /\ violation = "DestroyedWhileLive"
    /\ ~exists["widget"] /\ lastPeriod.w = "widget"

\* C10: a Required proxy constructed from a null wrapper pointer is raised as
\* MissingRequiredDependency while the descriptor is built: nothing is bound,
\* whatever state any wrapper is in.
C10_NullRequiredTrapsAtConstruction ==
    [][\A w \in Wrappers :
        (Did("bind", w) /\ \E f \in Fields(w) :
                              IsRequired(w, f) /\ lastOp'.ctors[f] = "nullptr") =>
            /\ lastOp'.result = "MissingRequiredDependency"
            /\ violation' = "MissingRequiredDependency"
            /\ UNCHANGED <<exists, Initialized, SetDeps, Instance, Memory, Deps>>
    ]_vars

\* C10 witness: the descriptor of cog was built with a null widget pointer
\* before any wrapper was bound or initialized
C10_Witness ==
    /\ lastOp.op = "bind" /\ lastOp.w = "cog" /\ lastOp.ctors["widget"] = "nullptr"
    /\ violation = "MissingRequiredDependency"
    /\ \A v \in Wrappers : State(v) = "Empty"

\* C11: every Required proxy in a bound descriptor, and every copy of one held
\* by a constructed instance, has a target address: none has a null Reference,
\* whichever constructor built it.
C11_RequiredNeverAbsent ==
    \A w \in Wrappers : \A f \in Fields(w) :
        (exists[w] /\ IsRequired(w, f)) =>
            /\ SetDeps[w] => Deps[w][f].Reference # NULL
            /\ Instance[w] # NULL => Memory[w].Deps[f].Reference # NULL

\* C12: an Optional proxy built without a target is inert for good: building
\* it never traps (a descriptor traps only for a Required field built from a
\* null pointer) and leaves a proxy without target; at every step every such
\* proxy in being reports not initialized, operator-> on it traps NotLive, and
\* a component that tests it before use skips the call.
C12_NullOptionalInert ==
    [][/\ \A w \in Wrappers :
            Did("bind", w) =>
              /\ lastOp'.result = "MissingRequiredDependency" =>
                    \E f \in Fields(w) : IsRequired(w, f) /\ lastOp'.ctors[f] = "nullptr"
              /\ lastOp'.result = "ok" =>
                    \A f \in Fields(w) :
                        (~IsRequired(w, f) /\ lastOp'.ctors[f] \in {"nullptr", "default"}) =>
                            /\ Deps'[w][f].Reference = NULL
                            /\ Deps'[w][f] \in AllProxies'
       /\ \A p \in AllProxies' : p.Reference = NULL => ~OptionalDependency_IsInitialized(p)'
       /\ (lastOp'.op = "proxyAccess" /\ lastOp'.proxy.Reference = NULL) =>
              /\ lastOp'.result = "NotLive"
              /\ violation' = "NotLive"
       /\ (Did("access", "cog") /\ lastOp'.method = "DoCogThing" /\ lastOp'.result = "ok"
              /\ Memory["cog"].Deps["optionalWidget"].Reference = NULL) =>
              lastOp'.calls = <<"Cog::DoCogThing", "Widget::DoWidgetThing", "Cog::DoCogThing2">>
    ]_vars

\* C12 witness: operator-> on the unset optionalWidget proxy of cog's bound
\* descriptor trapped although cog and widget, once shut down, are both
\* initialized again
C12_Witness ==
    /\ lastOp.op = "proxyAccess" /\ lastOp.result = "NotLive"
    /\ SetDeps["cog"] /\ lastOp.proxy = Deps["cog"]["optionalWidget"]
    /\ lastOp.proxy = OptionalDependency_null
    /\ State("cog") = "Live" /\ State("widget") = "Live"
    /\ lastPeriod.n >= 1

\* C13: SetDependencies on a live wrapper traps AlreadyLive and changes
\* nothing; on a wrapper that is not live, bound already or not, a descriptor
\* that could be built is stored and the wrapper is bound (DepsBound).
C13_BindUnlessLive ==
    [][\A w \in Wrappers :
        (Did("bind", w) /\ lastOp'.result # "MissingRequiredDependency") =>
            /\ lastOp'.from = State(w)
            /\ IF State(w) = "Live"
               THEN /\ lastOp'.result = "AlreadyLive"
                    /\ violation' = "AlreadyLive"
                    /\ UNCHANGED <<exists, Initialized, SetDeps, Instance, Memory, Deps>>
               ELSE /\ lastOp'.result = "ok"
                    /\ violation' = "none"
                    /\ State(w)' = "DepsBound"
                    /\ Deps'[w] = [f \in Fields(w) |-> MakeProxy(w, f, lastOp'.ctors[f])]
    ]_vars

\* C13 witness: cog, already bound and never initialized, was bound again to
\* a different descriptor
C13_Witness ==
    /\ lastOp.op = "bind" /\ lastOp.w = "cog" /\ lastOp.result = "ok"
    /\ lastOp.from = "DepsBound" /\ State("cog") = "DepsBound"
    /\ lastOp.ctors["optionalWidget"] = "ref"
    /\ Deps["cog"]["optionalWidget"].Reference # NULL

\* C18: Initialize sets the wrapper's flag only after the constructor and the
\* entry point of T have run: while T::Initialize runs, IsInitialized() of the
\* wrapper, and so of every proxy on it, is still false.
C18_LiveOnlyAfterEntryPoint ==
    (lastOp.op = "initialize" /\ lastOp.result = "ok") => ~lastOp.liveAtCall

\* C19: Shutdown of a live wrapper calls T::Shutdown exactly once, with the
\* flag still set (the proxies on the wrapper report initialized during the
\* call), then destroys the instance and zeroes the slot; on return the flag
\* is clear, the proxies report not initialized, the wrapper is DepsBound and
\* its descriptor is the one it had.
C19_ShutdownOrder ==
    [][\A w \in Wrappers :
        (Did("shutdown", w) /\ State(w) = "Live") =>
            /\ lastOp'.result = "ok"
            /\ lastOp'.calls = <<EntryName(w, "Shutdown")>>
            /\ lastOp'.liveAtCall
            /\ \A p \in AllProxies : p.Wrapper = w => OptionalDependency_IsInitialized(p)
            /\ Memory'[w] = ZeroBytes(w)
            /\ Instance'[w] = NULL
            /\ ~IsInitialized(w)'
            /\ \A p \in AllProxies' : p.Wrapper = w => ~OptionalDependency_IsInitialized(p)'
            /\ State(w)' = "DepsBound"
            /\ SetDeps'[w] /\ Deps'[w] = Deps[w]
    ]_vars

\* C19 witness: widget was shut down while cog, whose instance holds a proxy
\* on widget, stays live
C19_Witness ==
    /\ lastOp.op = "shutdown" /\ lastOp.w = "widget" /\ lastOp.from = "Live"
    /\ lastOp.calls = <<"Widget::Shutdown">> /\ lastOp.liveAtCall
    /\ State("widget") = "DepsBound" /\ ~Initialized["widget"]
    /\ State("cog") = "Live" /\ Memory["cog"].Deps["widget"].Wrapper = "widget"

\* C20: Initialize hands the value T::Initialize returned to its caller as it
\* is, and a reported failure undoes nothing: the wrapper is live from then on
\* until it is shut down; operator-> on it passes, another Initialize traps
\* AlreadyLive, its destructor traps DestroyedWhileLive, and Shutdown works as
\* for any live wrapper.
C20_FailureNotRolledBack ==
    [][\A w \in Wrappers :
        /\ (Did("initialize", w) /\ lastOp'.result = "ok") =>
              /\ initResult'[w] = lastOp'.returned
              /\ State(w)' = "Live" /\ IsInitialized(w)'
        /\ (exists[w] /\ violation = "none" /\ initResult[w] = "false") =>
              /\ State(w) = "Live" /\ IsInitialized(w)
              /\ Did("access", w) =>
                    lastOp'.ret = GetObjectPtr(w) /\ lastOp'.from = "Live"
              /\ Did("initialize", w) =>
                    /\ lastOp'.result = "AlreadyLive"
                    /\ UNCHANGED <<Initialized, SetDeps, Instance, Memory, Deps>>
              /\ Did("destroy", w) =>
                    lastOp'.result = "DestroyedWhileLive" /\ exists'[w]
              /\ Did("shutdown", w) =>
                    lastOp'.calls = <<EntryName(w, "Shutdown")>> /\ State(w)' = "DepsBound"
              /\ (lastOp'.w # w /\ lastOp'.op # "newTest") => State(w)' = "Live"
    ]_vars

\* C20 witness: widget, whose Initialize returned false, was used through
\* operator-> and then initialized again, which trapped
C20_Witness ==
    /\ lastOp.op = "initialize" /\ lastOp.w = "widget" /\ lastOp.result = "AlreadyLive"
    /\ initResult["widget"] = "false"
    /\ State("widget") = "Live"

\* C17: as long as the checked build has trapped in no call of the run, the
\* build without DI_DEBUG, given the same calls, has the same wrapper fields
\* (flag, bound flag, instance pointer, slot content, descriptor), has entered
\* the same component methods in the same order in its last call, returned
\* the same pointer, and has not run into undefined behaviour.
C17_BuildsAgree ==
    violation = "none" => rel = Checked

\* C17 witness: after a shutdown and a second Initialize of cog, both builds
\* went through DoCogThing, DoWidgetThing and DoCogThing2 and widget's
\* Initialize had reported failure
C17_Witness ==
    /\ violation = "none"
    /\ lastOp.op = "access" /\ lastOp.w = "cog"
    /\ rel.calls = <<"Cog::DoCogThing", "Widget::DoWidgetThing", "Cog::DoCogThing2">>
    /\ rel.Initialized["cog"] /\ rel.Initialized["widget"]
    /\ lastPeriod.w = "cog" /\ lastPeriod.n >= 1
    /\ initResult["widget"] = "false"

\* C14: Test_PeerObjects runs to its end without a trap. Once cog and widget
\* are bound to each other and before either is initialized, their Required
\* proxies hold each other's slot and cog's optionalWidget has no target;
\* cog->DoCogThing() enters DoCogThing, DoWidgetThing once (the unset
\* optionalWidget is skipped), which sees the 15 widget was initialized with,
\* and DoCogThing2; the test function returns with both wrappers destroyed,
\* having entered Cog::Initialize, Widget::Initialize, the three methods,
\* Widget::Shutdown, Cog::Shutdown in this order.
C14_PeerObjects ==
    run.test = "Test_PeerObjects" =>
        /\ violation = "none" /\ run.result # "asserted"
        /\ (lastOp.op = "bind" /\ lastOp.w = "widget") =>
              /\ Deps["cog"]["widget"].Reference = GetObjectPtr("widget")
              /\ Deps["widget"]["cog"].Reference = GetObjectPtr("cog")
              /\ Deps["cog"]["optionalWidget"].Reference = NULL
              /\ State("cog") = "DepsBound" /\ State("widget") = "DepsBound"
        /\ lastOp.op = "initialize" => lastOp.result = "ok" /\ State(lastOp.w) = "Live"
        /\ lastOp.op = "access" =>
              /\ lastOp.result = "ok"
              /\ lastOp.value = WidgetParameterX
              /\ lastOp.calls = <<"Cog::DoCogThing", "Widget::DoWidgetThing", "Cog::DoCogThing2">>
        /\ run.result = "returned" =>
              /\ run.calls = <<"Cog::Initialize", "Widget::Initialize", "Cog::DoCogThing",
                               "Widget::DoWidgetThing", "Cog::DoCogThing2",
                               "Widget::Shutdown", "Cog::Shutdown">>
              /\ \A w \in TestWrappers : ~exists[w]
        /\ run.verdict # "failed"

\* C14 witness: Test_PeerObjects has returned and RunTests goes on
C14_Witness ==
    /\ run.test = "Test_PeerObjects" /\ run.result = "returned" /\ run.verdict = "passed"
    /\ Len(run.calls) = 7

\* C15: Test_NestedDeps runs to its end without a trap. Every branch->DoThing()
\* between Initialize(10) and Shutdown passes operator->, which returns the
\* slot of branch, and reaches the one LeafObject of branch's member wrapper:
\* the calls return 11, 12, 13, each leaving its value in that LeafObject.
\* BranchObject's entry points bind, initialize and shut down the member:
\* BranchObject::Initialize, LeafObject::Initialize are entered first,
\* BranchObject::Shutdown, LeafObject::Shutdown last.
C15_NestedDeps ==
    run.test = "Test_NestedDeps" =>
        /\ violation = "none" /\ run.result # "asserted"
        /\ lastOp.op = "initialize" =>
              /\ lastOp.result = "ok" /\ State("branch") = "Live"
              /\ Memory["branch"].Leaf.Initialized /\ Memory["branch"].Leaf.SetDeps
              /\ Memory["branch"].Leaf.Memory.ParameterX = LeafParameterX
        /\ lastOp.op = "access" =>
              /\ lastOp.result = "ok"
              /\ lastOp.ret = GetObjectPtr("branch")
              /\ lastOp.value = LeafParameterX + Len(run.values)
              /\ Memory["branch"].Leaf.Memory.ParameterX = lastOp.value
              /\ lastOp.calls = <<"BranchObject::DoThing", "LeafObject::DoThing">>
        /\ run.result = "returned" =>
              /\ run.values = <<LeafParameterX + 1, LeafParameterX + 2, LeafParameterX + 3>>
              /\ SubSeq(run.calls, 1, 2) = <<"BranchObject::Initialize", "LeafObject::Initialize">>
              /\ SubSeq(run.calls, Len(run.calls) - 1, Len(run.calls)) =
                     <<"BranchObject::Shutdown", "LeafObject::Shutdown">>
              /\ Len(run.calls) = 10
              /\ \A w \in TestWrappers : ~exists[w]
        /\ run.verdict # "failed"

\* C15 witness: Test_NestedDeps has returned, the third DoThing having
\* returned 13
C15_Witness ==
    /\ run.test = "Test_NestedDeps" /\ run.result = "returned" /\ run.verdict = "passed"
    /\ Len(run.values) = 3 /\ run.values[3] = LeafParameterX + 3

\* C16: Test_DerivedClass runs to its end without a trap: no assertion fails
\* in any of its statements and RunTests goes on after it.
C16_DerivedClassNoViolation ==
    run.test = "Test_DerivedClass" =>
        /\ violation = "none"
        /\ run.result # "asserted"
        /\ run.verdict # "failed"

C22_PointerIffFlag ==
    [][\A w \in Wrappers :
        LET Agree(I, F) == (I[w] # NULL) <=> F[w]
        IN  /\ exists[w] => Agree(Instance, Initialized)
            /\ exists'[w] => Agree(Instance', Initialized')
            /\ (exists'[w] /\ violation' = "none") => Agree(rel'.Instance, rel'.Initialized)
            /\ (Did("shutdown", w) /\ Initialized[w]) =>
                  /\ lastOp'.calls = <<EntryName(w, "Shutdown")>>
                  /\ Instance'[w] = NULL /\ ~Initialized'[w]
            /\ (Did("shutdown", w) /\ ~Initialized[w]) =>
                  /\ lastOp'.calls = <<>> /\ lastOp'.result = "ok"
                  /\ UNCHANGED <<exists, Initialized, SetDeps, Instance, Memory, Deps,
                                 violation>>
            /\ (Did("access", w) /\ Initialized[w]) =>
                  lastOp'.ret = GetObjectPtr(w) /\ lastOp'.ret # NULL
    ]_vars

\* C22 witness: Shutdown was called on cog, bound and not live, while widget
\* is live: nothing was entered, and cog has neither pointer nor flag while
\* widget has both
C22_Witness ==
    /\ lastOp.op = "shutdown" /\ lastOp.w = "cog" /\ lastOp.from = "DepsBound"
    /\ lastOp.calls = <<>> /\ violation = "none"
    /\ Instance["cog"] = NULL /\ ~Initialized["cog"]
    /\ Instance["widget"] # NULL /\ Initialized["widget"]
    /\ lastPeriod.w = "cog"

====
